---- MODULE Spec2Model ----
(***************************************************************************)
(* The two multi-agent pipelines of src/2_frameworks/2_multi_agent:        *)
(*   verbose.py    explicit plan: planner -> research steps -> writer      *)
(*   efficient.py  delegated tool: one streamed run of the main agent      *)
(* together with the process life cycle around them (module set-up,        *)
(* demo.launch, the SIGINT handler and the finally block).                 *)
(*                                                                         *)
(* A turn is the async generator _main.  Its position (turnPc) is the      *)
(* await or yield it is suspended at.  The agents SDK, the tracing library *)
(* and the two clients are outside the repository: a model call returns or *)
(* raises, a close() returns or raises, and what the tracing library marks *)
(* on a span left by an exception is one of the outcomes it can produce.   *)
(***************************************************************************)
EXTENDS Integers, Sequences, FiniteSets, TLC

\* ----------------------------------------------------------------- bounds
MaxPlan == 3        \* longest search plan the planner returns
MaxItems == 1       \* most transcript messages one research run / stream event converts to
MaxHistory == 1     \* most messages already in the chat when a turn starts
MaxTurns == 2       \* turns served by one process
MaxEvents == 2      \* most stream events of one delegated-tool run

VARIABLES
    variant,         \* which module runs as __main__: "verbose" or "efficient"
    procPc,          \* position of the main thread
    clients,         \* client objects constructed so far
    globalOpenai,    \* the object the module-level name async_openai_client is bound to
    agentOpenai,     \* the object the agents' models were constructed with
    closeCalls,      \* per client: number of close() calls made on it
    closed,          \* clients on which a close() call returned
    closeErrors,     \* number of close() calls that raised
    served,          \* clients that carried at least one model/knowledge-base call of a turn
    sigint,          \* whether SIGINT was delivered
    pending,         \* exception in flight in the main thread
    exitCode,        \* exit status of the process, -1 while it runs
    turnPc,          \* position of the turn's generator
    turns,           \* turns started so far
    histLen,         \* length of gr_messages when the current turn started
    gr_messages,     \* the transcript list
    search_plan,     \* the planner's search steps (search terms, in plan order)
    search_results,  \* the summaries collected by the loop
    writer_input,    \* the numbered summaries handed to the writer
    spans,           \* the tracing spans started in the current turn
    yields,          \* the snapshots the generator has yielded in the current turn
    calls,           \* the model runs started in the current turn, in order
    failure,         \* how the turn ended early, if it did
    events           \* stream events consumed in the current turn

procVars == <<variant, procPc, clients, globalOpenai, closeCalls, closed, closeErrors,
              sigint, pending, exitCode>>
turnVars == <<turnPc, turns, histLen, gr_messages, search_plan, search_results,
              writer_input, spans, yields, calls, failure, events, agentOpenai, served>>
vars == <<variant, procPc, clients, globalOpenai, agentOpenai, closeCalls, closed,
          closeErrors, served, sigint, pending, exitCode, turnPc, turns, histLen,
          gr_messages, search_plan, search_results, writer_input, spans, yields,
          calls, failure, events>>

ClientIds == {"kb", "oa1", "oa2"}
NoFailure == [stage |-> "none", cause |-> "none"]

\* ------------------------------------------------------------ transcript
Msg(kind, step) == [kind |-> kind, step |-> step]

\* ChatMessage(role="user", content=question)
UserMessage == Msg("user", 0)

\* ChatMessage(role="assistant", content=f"Search Plan:\n{search_plan}")
PlanMessage == Msg("plan", 0)

\* ChatMessage(role="assistant", content=f"Summary:...Full Report:...")
ReportMessage == Msg("report", 0)

\* oai_agent_items_to_gradio_messages(response.new_items) of the run of step i:
\* n messages, all of them from that run
StepMessages(i, n) == [k \in 1..n |-> Msg("step", i)]

\* oai_agent_stream_to_gradio_messages(_item) of the e-th stream event
StreamMessages(e, n) == [k \in 1..n |-> Msg("stream", e)]

\* gr_messages already present when the turn starts
History(h) == [k \in 1..h |-> Msg("history", 0)]

\* gr_messages.append(m)
AppendMessage(msgs, m) == Append(msgs, m)

\* (variant) the new messages put in front of the transcript
ExtendMessagesInFront(msgs, new) == new \o msgs

\* gr_messages += new
ExtendMessages(msgs, new) == msgs \o new

\* yield gr_messages
Yield(ys, msgs) == Append(ys, msgs)

\* ----------------------------------------------------------------- spans
\* langfuse_client.start_as_current_span(name=...): a new open span
StartSpan(ss, name) ==
    Append(ss, [name |-> name, state |-> "open", output |-> FALSE, status |-> "UNSET"])

\* span.update(output=...) on the innermost span named name
UpdateOutput(ss, name) ==
    [i \in DOMAIN ss |->
        IF ss[i].name = name /\ ss[i].state = "open"
        THEN [ss[i] EXCEPT !.output = TRUE] ELSE ss[i]]

\* leaving the with block of span name normally
ExitSpan(ss, name) ==
    [i \in DOMAIN ss |->
        IF ss[i].name = name /\ ss[i].state = "open"
        THEN [ss[i] EXCEPT !.state = "ended"] ELSE ss[i]]

\* an exception (or CancelledError / GeneratorExit) leaving every enclosing with
\* block: each open span is ended; the code sets no status, the library leaves
\* st on it
UnwindSpans(ss, st) ==
    [i \in DOMAIN ss |->
        IF ss[i].state = "open"
        THEN [ss[i] EXCEPT !.state = "unwound", !.status = st] ELSE ss[i]]

\* what the tracing library leaves on a span that an exception passes through
UnwindStatuses == {"UNSET", "ERROR"}

\* -------------------------------------------------------------- the loop
\* (variant) the loop stops one step short
LoopDoneEarly(results, plan) == Len(results) + 1 >= Len(plan)

\* for step in search_plan.search_steps: is the loop over?
LoopDone(results, plan) == Len(results) = Len(plan)

\* search_results.append(search_result); the summary is the research agent's
\* answer to the step's search term
AppendResult(results, term) == Append(results, [term |-> term])

\* "\n".join(f"{i + 1}. {result}" for i, result in enumerate(search_results))
FinalReportInput(results) ==
    [i \in 1..Len(results) |-> [num |-> (i - 1) + 1, result |-> results[i]]]

\* the plans the planner can return: n distinct search terms, listed in
\* increasing or in decreasing order
Plans(n) == {[k \in 1..n |-> k], [k \in 1..n |-> n + 1 - k]}

\* ------------------------------------------------------------------ Init
\* The state once the module's top-level definitions have run and the
\* __main__ block is about to: efficient.py has constructed both clients and
\* the three agents on import, verbose.py constructs everything in __main__
Init ==
    /\ variant \in {"verbose", "efficient"}
    /\ procPc = "main"
    /\ clients = IF variant = "efficient" THEN {"kb", "oa1"} ELSE {}
    /\ globalOpenai = IF variant = "efficient" THEN "oa1" ELSE "none"
    /\ agentOpenai = IF variant = "efficient" THEN "oa1" ELSE "none"
    /\ closeCalls = [c \in ClientIds |-> 0]
    /\ closed = {}
    /\ closeErrors = 0
    /\ served = {}
    /\ sigint = FALSE
    /\ pending = "none"
    /\ exitCode = -1
    /\ turnPc = "idle"
    /\ turns = 0
    /\ histLen = 0
    /\ gr_messages = <<>>
    /\ search_plan = <<>>
    /\ search_results = <<>>
    /\ writer_input = <<>>
    /\ spans = <<>>
    /\ yields = <<>>
    /\ calls = <<>>
    /\ failure = NoFailure
    /\ events = 0

\* ------------------------------------------------------------ the process
\* the client objects the __main__ block constructs
MainClients(v, cs) == IF v = "verbose" THEN {"kb", "oa1"} ELSE cs \cup {"oa2"}

\* the object async_openai_client names once the __main__ block has run:
\* verbose.py binds the name for the first time, efficient.py rebinds it to a
\* second AsyncOpenAI()
MainOpenai(v) == IF v = "verbose" THEN "oa1" ELSE "oa2"

\* if __name__ == "__main__": up to signal.signal(...), then demo.launch blocks
MainBlock ==
    /\ procPc = "main"
    /\ clients' = MainClients(variant, clients)
    /\ globalOpenai' = MainOpenai(variant)
    /\ procPc' = "serving"
    /\ UNCHANGED <<variant, closeCalls, closed, closeErrors, sigint, pending, exitCode>>
    /\ UNCHANGED turnVars

\* one await <client>.close() of _cleanup_clients: it returns or raises
CloseClient(c, outcome) ==
    /\ closeCalls' = [closeCalls EXCEPT ![c] = @ + 1]
    /\ closed' = IF outcome = "ok" THEN closed \cup {c} ELSE closed
    /\ closeErrors' = IF outcome = "raise" THEN closeErrors + 1 ELSE closeErrors

\* SIGINT arrives while demo.launch blocks the main thread: _handle_sigint starts
Sigint ==
    /\ procPc = "serving"
    /\ ~sigint
    /\ sigint' = TRUE
    /\ procPc' = "h_kb"
    /\ UNCHANGED <<variant, clients, globalOpenai, closeCalls, closed, closeErrors,
                   pending, exitCode>>
    /\ UNCHANGED turnVars

\* _handle_sigint: get_event_loop().run_until_complete(...) cannot run the
\* coroutine (no usable loop in the main thread): RuntimeError, suppressed
HandlerNoLoop ==
    /\ procPc = "h_kb"
    /\ procPc' = "h_exit"
    /\ UNCHANGED <<variant, clients, globalOpenai, closeCalls, closed, closeErrors,
                   sigint, pending, exitCode>>
    /\ UNCHANGED turnVars

\* _handle_sigint -> _cleanup_clients: await async_weaviate_client.close();
\* an exception ends the coroutine and is suppressed by the handler
HandlerCloseKb ==
    /\ procPc = "h_kb"
    /\ \E outcome \in {"ok", "raise"} :
        /\ CloseClient("kb", outcome)
        /\ procPc' = IF outcome = "ok" THEN "h_oa" ELSE "h_exit"
    /\ UNCHANGED <<variant, clients, globalOpenai, sigint, pending, exitCode>>
    /\ UNCHANGED turnVars

\* _handle_sigint -> _cleanup_clients: await async_openai_client.close()
HandlerCloseOpenai ==
    /\ procPc = "h_oa"
    /\ \E outcome \in {"ok", "raise"} : CloseClient(globalOpenai, outcome)
    /\ procPc' = "h_exit"
    /\ UNCHANGED <<variant, clients, globalOpenai, sigint, pending, exitCode>>
    /\ UNCHANGED turnVars

\* _handle_sigint: sys.exit(0) raises SystemExit(0) out of demo.launch, into
\* the finally block
HandlerExit ==
    /\ procPc = "h_exit"
    /\ pending' = "SystemExit0"
    /\ procPc' = "f_kb"
    /\ UNCHANGED <<variant, clients, globalOpenai, closeCalls, closed, closeErrors,
                   sigint, exitCode>>
    /\ UNCHANGED turnVars

\* demo.launch(share=True) returns, or raises, without a signal
LaunchEnds ==
    /\ procPc = "serving"
    /\ \E p \in {"none", "error"} : pending' = p
    /\ procPc' = "f_kb"
    /\ UNCHANGED <<variant, clients, globalOpenai, closeCalls, closed, closeErrors,
                   sigint, exitCode>>
    /\ UNCHANGED turnVars

\* the exit status once the main thread ends with exception p in flight
ExitStatus(p) == IF p \in {"none", "SystemExit0"} THEN 0 ELSE 1

\* finally: asyncio.run(_cleanup_clients()): await async_weaviate_client.close();
\* an exception leaves the coroutine and asyncio.run, replacing the one in flight
FinallyCloseKb ==
    /\ procPc = "f_kb"
    /\ \E outcome \in {"ok", "raise"} :
        /\ CloseClient("kb", outcome)
        /\ IF outcome = "ok"
           THEN /\ procPc' = "f_oa"
                /\ UNCHANGED <<pending, exitCode>>
           ELSE /\ procPc' = "exited"
                /\ pending' = "error"
                /\ exitCode' = ExitStatus("error")
    /\ UNCHANGED <<variant, clients, globalOpenai, sigint>>
    /\ UNCHANGED turnVars

\* finally: asyncio.run(_cleanup_clients()): await async_openai_client.close(),
\* then the main thread ends
FinallyCloseOpenai ==
    /\ procPc = "f_oa"
    /\ \E outcome \in {"ok", "raise"} :
        /\ CloseClient(globalOpenai, outcome)
        /\ pending' = IF outcome = "ok" THEN pending ELSE "error"
        /\ exitCode' = ExitStatus(pending')
    /\ procPc' = "exited"
    /\ UNCHANGED <<variant, clients, globalOpenai, sigint>>
    /\ UNCHANGED turnVars

\* --------------------------------------------------------------- a turn
TurnOver == turnPc \in {"idle", "done", "failed", "cancelled"}

\* (variant) the exception is caught and reported in the transcript
AbortWithMessage(stage, cause) ==
    /\ \E st \in UnwindStatuses : spans' = UnwindSpans(spans, st)
    /\ failure' = [stage |-> stage, cause |-> cause]
    /\ turnPc' = IF cause = "cancel" THEN "cancelled" ELSE "failed"
    /\ gr_messages' = AppendMessage(gr_messages, Msg("error", 0))
    /\ UNCHANGED <<turns, histLen, search_plan, search_results,
                   writer_input, yields, calls, events, agentOpenai, served>>

\* an exception raised at the current await or yield: nothing in _main catches
\* it, so it leaves every with block on its way out of the generator
Abort(stage, cause) ==
    /\ \E st \in UnwindStatuses : spans' = UnwindSpans(spans, st)
    /\ failure' = [stage |-> stage, cause |-> cause]
    /\ turnPc' = IF cause = "cancel" THEN "cancelled" ELSE "failed"
    /\ UNCHANGED <<turns, histLen, gr_messages, search_plan, search_results,
                   writer_input, yields, calls, events, agentOpenai, served>>

\* verbose._main up to its first yield: the three agents are constructed with
\* the module's async_openai_client, the question is appended and yielded
StartTurnVerbose ==
    /\ variant = "verbose"
    /\ procPc = "serving"
    /\ TurnOver
    /\ turns < MaxTurns
    /\ turns' = turns + 1
    /\ agentOpenai' = globalOpenai
    /\ \E h \in 0..MaxHistory :
        /\ histLen' = h
        /\ gr_messages' = AppendMessage(History(h), UserMessage)
    /\ yields' = Yield(<<>>, gr_messages')
    /\ search_plan' = <<>>
    /\ search_results' = <<>>
    /\ writer_input' = <<>>
    /\ spans' = <<>>
    /\ calls' = <<>>
    /\ failure' = NoFailure
    /\ events' = 0
    /\ turnPc' = "v_yield_user"
    /\ UNCHANGED served
    /\ UNCHANGED procVars

\* resumed after the first yield: the turn span and the planner span are
\* opened and the planner run is awaited
StartPlanner ==
    /\ procPc = "serving"
    /\ turnPc = "v_yield_user"
    /\ spans' = StartSpan(StartSpan(spans, "Multi-Agent-Trace"), "create_search_plan")
    /\ calls' = Append(calls, "planner")
    /\ served' = served \cup {agentOpenai}
    /\ turnPc' = "v_await_plan"
    /\ UNCHANGED <<turns, histLen, gr_messages, search_plan, search_results,
                   writer_input, yields, failure, events, agentOpenai>>
    /\ UNCHANGED procVars

\* the planner run returns a SearchPlan: the planner span gets its output and
\* ends, the plan message is appended and yielded
PlannerReturns ==
    /\ procPc = "serving"
    /\ turnPc = "v_await_plan"
    /\ \E n \in 0..MaxPlan : \E p \in Plans(n) : search_plan' = p
    /\ spans' = ExitSpan(UpdateOutput(spans, "create_search_plan"), "create_search_plan")
    /\ gr_messages' = AppendMessage(gr_messages, PlanMessage)
    /\ yields' = Yield(yields, gr_messages')
    /\ turnPc' = "v_yield_plan"
    /\ UNCHANGED <<turns, histLen, search_results, writer_input, calls, failure,
                   events, agentOpenai, served>>
    /\ UNCHANGED procVars

\* the planner run raises: the model call failed, or its output did not parse
\* into a SearchPlan
PlannerFails ==
    /\ procPc = "serving"
    /\ turnPc = "v_await_plan"
    /\ \E cause \in {"model", "schema"} : Abort("planner", cause)
    /\ UNCHANGED procVars

\* the loop takes its next step: the step span is opened and the research run
\* on the step's search term is awaited
StartResearch ==
    /\ procPc = "serving"
    /\ turnPc \in {"v_yield_plan", "v_yield_step"}
    /\ ~LoopDone(search_results, search_plan)
    /\ spans' = StartSpan(spans, "execute_search_step")
    /\ calls' = Append(calls, "research")
    /\ served' = served \cup {agentOpenai, "kb"}
    /\ turnPc' = "v_await_step"
    /\ UNCHANGED <<turns, histLen, gr_messages, search_plan, search_results,
                   writer_input, yields, failure, events, agentOpenai>>
    /\ UNCHANGED procVars

\* (variant) the loop collects without yielding
NoYieldAfterStep(ys, msgs) == ys

\* the snapshot yielded at the end of a loop iteration
YieldAfterStep(ys, msgs) == Yield(ys, msgs)

\* the research run returns: the step span gets its output and ends, the
\* summary is collected, the run's items are added to the transcript and yielded
ResearchReturns ==
    /\ procPc = "serving"
    /\ turnPc = "v_await_step"
    /\ spans' = ExitSpan(UpdateOutput(spans, "execute_search_step"), "execute_search_step")
    /\ search_results' =
           AppendResult(search_results, search_plan[Len(search_results) + 1])
    /\ \E n \in 0..MaxItems :
           gr_messages' =
               ExtendMessages(gr_messages, StepMessages(Len(search_results) + 1, n))
    /\ yields' = YieldAfterStep(yields, gr_messages')
    /\ turnPc' = "v_yield_step"
    /\ UNCHANGED <<turns, histLen, search_plan, writer_input, calls, failure,
                   events, agentOpenai, served>>
    /\ UNCHANGED procVars

\* the research run raises
ResearchFails ==
    /\ procPc = "serving"
    /\ turnPc = "v_await_step"
    /\ Abort("research", "model")
    /\ UNCHANGED procVars

\* the loop is over: _generate_final_report numbers the summaries, opens the
\* writer span and awaits the writer run
StartWriter ==
    /\ procPc = "serving"
    /\ turnPc \in {"v_yield_plan", "v_yield_step"}
    /\ LoopDone(search_results, search_plan)
    /\ writer_input' = FinalReportInput(search_results)
    /\ spans' = StartSpan(spans, "generate_final_report")
    /\ calls' = Append(calls, "writer")
    /\ served' = served \cup {agentOpenai}
    /\ turnPc' = "v_await_writer"
    /\ UNCHANGED <<turns, histLen, gr_messages, search_plan, search_results,
                   yields, failure, events, agentOpenai>>
    /\ UNCHANGED procVars

\* the writer run returns a ResearchReport: the writer span and the turn span
\* get their outputs, the report message is appended and yielded
WriterReturns ==
    /\ procPc = "serving"
    /\ turnPc = "v_await_writer"
    /\ spans' = UpdateOutput(
                    ExitSpan(UpdateOutput(spans, "generate_final_report"),
                             "generate_final_report"),
                    "Multi-Agent-Trace")
    /\ gr_messages' = AppendMessage(gr_messages, ReportMessage)
    /\ yields' = Yield(yields, gr_messages')
    /\ turnPc' = "v_yield_report"
    /\ UNCHANGED <<turns, histLen, search_plan, search_results, writer_input,
                   calls, failure, events, agentOpenai, served>>
    /\ UNCHANGED procVars

\* the writer run raises: the model call failed, or its output did not parse
\* into a ResearchReport
WriterFails ==
    /\ procPc = "serving"
    /\ turnPc = "v_await_writer"
    /\ \E cause \in {"model", "schema"} : Abort("writer", cause)
    /\ UNCHANGED procVars

\* resumed after the last yield: the turn span's with block is left and the
\* generator is exhausted
FinishVerbose ==
    /\ procPc = "serving"
    /\ turnPc = "v_yield_report"
    /\ spans' = ExitSpan(spans, "Multi-Agent-Trace")
    /\ turnPc' = "done"
    /\ UNCHANGED <<turns, histLen, gr_messages, search_plan, search_results,
                   writer_input, yields, calls, failure, events, agentOpenai, served>>
    /\ UNCHANGED procVars

\* efficient._main up to its first await: the turn span is opened and the
\* streamed run of the main agent is started
StartTurnEfficient ==
    /\ variant = "efficient"
    /\ procPc = "serving"
    /\ TurnOver
    /\ turns < MaxTurns
    /\ turns' = turns + 1
    /\ \E h \in 0..MaxHistory :
        /\ histLen' = h
        /\ gr_messages' = History(h)
    /\ yields' = <<>>
    /\ search_plan' = <<>>
    /\ search_results' = <<>>
    /\ writer_input' = <<>>
    /\ spans' = StartSpan(<<>>, "Agents-SDK-Trace2")
    /\ calls' = <<"main">>
    /\ served' = served \cup {agentOpenai, "kb"}
    /\ failure' = NoFailure
    /\ events' = 0
    /\ turnPc' = "e_await_event"
    /\ UNCHANGED agentOpenai
    /\ UNCHANGED procVars

\* (variant) the stream loop yields whatever the transcript holds
AlwaysYield(msgs) == TRUE

\* if len(gr_messages) > 0:
ShouldYield(msgs) == Len(msgs) > 0

\* one stream event arrives: its messages are added, and the transcript is
\* yielded when it is not empty
StreamEvent ==
    /\ procPc = "serving"
    /\ turnPc = "e_await_event"
    /\ events < MaxEvents
    /\ events' = events + 1
    /\ \E n \in 0..MaxItems :
           gr_messages' = ExtendMessages(gr_messages, StreamMessages(events + 1, n))
    /\ IF ShouldYield(gr_messages')
       THEN /\ yields' = Yield(yields, gr_messages')
            /\ turnPc' = "e_yield"
       ELSE /\ UNCHANGED <<yields, turnPc>>
    /\ UNCHANGED <<turns, histLen, search_plan, search_results, writer_input,
                   spans, calls, failure, agentOpenai, served>>
    /\ UNCHANGED procVars

\* resumed after a yield of the stream loop: the next event is awaited
ResumeStream ==
    /\ procPc = "serving"
    /\ turnPc = "e_yield"
    /\ turnPc' = "e_await_event"
    /\ UNCHANGED <<turns, histLen, gr_messages, search_plan, search_results,
                   writer_input, spans, yields, calls, failure, events,
                   agentOpenai, served>>
    /\ UNCHANGED procVars

\* the stream is exhausted: the turn span gets its output and its with block
\* is left
StreamEnds ==
    /\ procPc = "serving"
    /\ turnPc = "e_await_event"
    /\ spans' = ExitSpan(UpdateOutput(spans, "Agents-SDK-Trace2"), "Agents-SDK-Trace2")
    /\ turnPc' = "done"
    /\ UNCHANGED <<turns, histLen, gr_messages, search_plan, search_results,
                   writer_input, yields, calls, failure, events, agentOpenai, served>>
    /\ UNCHANGED procVars

\* the streamed run raises
StreamFails ==
    /\ procPc = "serving"
    /\ turnPc = "e_await_event"
    /\ Abort("stream", "model")
    /\ UNCHANGED procVars

\* the stage a suspended generator is in
StageAt(pc) ==
    CASE pc = "v_await_plan" -> "planner"
      [] pc = "v_await_step" -> "research"
      [] pc = "v_await_writer" -> "writer"
      [] pc = "e_await_event" -> "stream"
      [] OTHER -> "yield"

Suspended == ~TurnOver

\* the caller cancels the turn: CancelledError at the await, or GeneratorExit
\* at the yield, the generator is suspended at
Cancel ==
    /\ procPc = "serving"
    /\ Suspended
    /\ Abort(StageAt(turnPc), "cancel")
    /\ UNCHANGED procVars

Next ==
    \/ MainBlock
    \/ Sigint
    \/ HandlerNoLoop
    \/ HandlerCloseKb
    \/ HandlerCloseOpenai
    \/ HandlerExit
    \/ LaunchEnds
    \/ FinallyCloseKb
    \/ FinallyCloseOpenai
    \/ StartTurnVerbose
    \/ StartPlanner
    \/ PlannerReturns
    \/ PlannerFails
    \/ StartResearch
    \/ ResearchReturns
    \/ ResearchFails
    \/ StartWriter
    \/ WriterReturns
    \/ WriterFails
    \/ FinishVerbose
    \/ StartTurnEfficient
    \/ StreamEvent
    \/ ResumeStream
    \/ StreamEnds
    \/ StreamFails
    \/ Cancel

Spec == Init /\ [][Next]_vars

\* ------------------------------------------------------------ properties
\* the messages the current turn has added to the transcript
Appended == SubSeq(gr_messages, histLen + 1, Len(gr_messages))

\* the positions of calls at which agent a was run
CallsOf(a) == {i \in DOMAIN calls : calls[i] = a}

\* the messages of snapshot y the current turn added
AppendedIn(y) == SubSeq(y, histLen + 1, Len(y))

Completed == variant = "verbose" /\ turnPc \in {"v_yield_report", "done"}

\* C1: a completed turn of the explicit-plan pipeline has appended, in this
\* order, the user question, the search plan, the messages of step 1, of step
\* 2, ..., of step N, and the final report: no message of a later step
\* precedes one of an earlier step, and the report is the last message.
C1_TranscriptOrder ==
    Completed =>
        LET a == Appended
            n == Len(a)
        IN  /\ n >= 3
            /\ a[1] = UserMessage
            /\ a[2] = PlanMessage
            /\ a[n] = ReportMessage
            /\ \A i \in 3..(n - 1) :
                   a[i].kind = "step" /\ a[i].step \in 1..Len(search_plan)
            /\ \A i, j \in 3..(n - 1) : i < j => a[i].step <= a[j].step

\* a completed turn whose transcript holds messages of two different steps
C1_Witness ==
    /\ Completed
    /\ \E i, j \in DOMAIN Appended :
           /\ Appended[i].kind = "step"
           /\ Appended[j].kind = "step"
           /\ Appended[i].step < Appended[j].step

\* C2: the writer is run only after the research agent has returned a summary
\* for every step of the plan, and its input lists one summary per plan step,
\* numbered 1..N in plan order: item k is the summary of the plan's k-th term.
C2_WriterAfterAllSteps ==
    (CallsOf("writer") # {}) =>
        /\ Len(search_results) = Len(search_plan)
        /\ Cardinality(CallsOf("research")) = Len(search_plan)
        /\ \A r \in CallsOf("research") : \A w \in CallsOf("writer") : r < w
        /\ Len(writer_input) = Len(search_plan)
        /\ \A k \in 1..Len(search_plan) :
               /\ writer_input[k].num = k
               /\ writer_input[k].result.term = search_plan[k]

\* the writer was run on a plan of several steps whose terms are not 1, 2, ...
C2_Witness ==
    /\ CallsOf("writer") # {}
    /\ Len(search_plan) >= 2
    /\ search_plan[1] # 1
    /\ Len(writer_input) = Len(search_plan)

\* C3: whenever a model run of the explicit-plan pipeline is in flight, every
\* sub-step completed before it (the question, the plan, each finished search
\* step) has been yielded, one snapshot each, and the last snapshot is the
\* whole transcript; a completed turn has yielded once for the question, once
\* for the plan, once per step and once for the report.
C3_YieldPerSubStep ==
    /\ turnPc = "v_await_plan" => Len(yields) = 1
    /\ turnPc = "v_await_step" => Len(yields) = 2 + Len(search_results)
    /\ turnPc = "v_await_writer" => Len(yields) = 2 + Len(search_plan)
    /\ turnPc \in {"v_await_plan", "v_await_step", "v_await_writer"} =>
           yields[Len(yields)] = gr_messages
    /\ Completed =>
           /\ Len(yields) = 3 + Len(search_plan)
           /\ AppendedIn(yields[1]) = <<UserMessage>>
           /\ AppendedIn(yields[2]) = <<UserMessage, PlanMessage>>
           /\ \A k \in 1..Len(search_plan) :
                  \A i \in DOMAIN AppendedIn(yields[2 + k]) :
                      /\ AppendedIn(yields[2 + k])[i].kind # "report"
                      /\ AppendedIn(yields[2 + k])[i].step <= k
           /\ yields[Len(yields)] = gr_messages

\* a completed turn with a plan of several steps
C3_Witness ==
    /\ Completed
    /\ Len(search_plan) >= 2
    /\ Len(yields) = 3 + Len(search_plan)

\* C4: after SIGINT, with no close() raising, the process has exited with
\* status 0 and close() was called exactly once on the knowledge-base client
\* and exactly once on the model client, the handler's and the finally block's
\* calls both counted.
C4_ClosedExactlyOnce ==
    (procPc = "exited" /\ sigint /\ closeErrors = 0) =>
        /\ closeCalls["kb"] = 1
        /\ closeCalls[globalOpenai] = 1
        /\ exitCode = 0

\* C5: on the SIGINT path an error raised by a close() during cleanup does
\* not leave the process (the exit status stays 0) and a failed close of the
\* knowledge-base client does not keep the model client from being closed:
\* every cleanup that ran got to the model client's close().
C5_CleanupErrorsSuppressed ==
    (procPc = "exited" /\ sigint) =>
        /\ exitCode = 0
        /\ closeCalls[globalOpenai] >= 1

\* C6: a research run that fails does not abort the turn: no turn of the
\* explicit-plan pipeline ends failed at a research step (the remaining steps
\* and the writer still run).
C6_StepFailureAbsorbed ==
    turnPc = "failed" => failure.stage # "research"

\* C7: when the planner stage fails the turn ends there: the planner run is
\* the only model run, no summary was collected, the writer got no input, and
\* the turn has appended (and yielded) the user question and nothing else.
C7_PlannerFailureEndsTurn ==
    (turnPc = "failed" /\ failure.stage = "planner") =>
        /\ calls = <<"planner">>
        /\ search_results = <<>>
        /\ writer_input = <<>>
        /\ Appended = <<UserMessage>>
        /\ Len(yields) = 1

\* a turn that ended by a failure of the planner stage
C7_Witness ==
    /\ turnPc = "failed"
    /\ failure.stage = "planner"
    /\ Len(gr_messages) = histLen + 1

\* C8: a turn ended by a structured output of the wrong shape has appended a
\* user-visible error message as its last message.
C8_SchemaFailureSurfaced ==
    (TurnOver /\ failure.cause = "schema") =>
        /\ Len(Appended) > 0
        /\ Appended[Len(Appended)].kind = "error"

\* C9: in every end state of a turn (completed, failed or cancelled) no span
\* is open, and every span that a failure or a cancellation closed carries a
\* canceled/partial status.
C9_SpansClosedCanceled ==
    turnPc \in {"done", "failed", "cancelled"} =>
        \A i \in DOMAIN spans :
            /\ spans[i].state # "open"
            /\ spans[i].state = "unwound" =>
                   spans[i].status \in {"CANCELED", "PARTIAL"}

\* C10: after a shutdown in which no close() raised, every client that served
\* a turn has been closed.
C10_ServingClientsClosed ==
    (procPc = "exited" /\ closeErrors = 0) => served \subseteq closed

\* whether sequence a is a prefix of sequence b
IsPrefix(a, b) == Len(a) <= Len(b) /\ SubSeq(b, 1, Len(a)) = a

\* C11: in both pipelines the transcript only grows within a turn: every
\* snapshot yielded has the snapshot yielded before it as a prefix, the
\* transcript itself has the last snapshot as a prefix, and the
\* delegated-tool pipeline never yields an empty transcript.
C11_AppendOnlyTranscript ==
    /\ \A i \in 1..(Len(yields) - 1) : IsPrefix(yields[i], yields[i + 1])
    /\ Len(yields) > 0 => IsPrefix(yields[Len(yields)], gr_messages)
    /\ variant = "efficient" => \A i \in DOMAIN yields : Len(yields[i]) > 0

\* a delegated-tool turn that consumed an event without yielding (the
\* transcript was still empty) and then yielded a non-empty one; or one that
\* yielded two snapshots, the second longer than the first
C11_Witness ==
    /\ variant = "efficient"
    /\ \/ /\ histLen = 0
          /\ events = 2
          /\ Len(yields) = 1
       \/ /\ Len(yields) >= 2
          /\ Len(yields[1]) < Len(yields[2])

====
